---- MODULE Spec2Model ----
(***************************************************************************)
(* Hotel-booking availability and lifecycle logic of DockDineStay          *)
(* (backend/src/dockdinestay/db/hotel_booking.py, models.py, utils.py).    *)
(*                                                                         *)
(* The MongoDB collections are modelled as functions from document ids to  *)
(* documents; a document is a function from its field names to values, so  *)
(* that a query on a field the document does not have behaves as MongoDB   *)
(* does: it does not match.                                                *)
(***************************************************************************)
EXTENDS Integers, FiniteSets, Sequences, TLC

(* ------------------------------ bounds -------------------------------- *)
NumRooms == 1
NumBookings == 2
NumUsers == 1
MaxTime == 2
NumStatuses == 3
NumRequests == 2
NumMoveRooms == 2

RoomIds == 1..NumRooms
BookingIds == 1..NumBookings
Users == 1..NumUsers
Times == 0..MaxTime
RoomNumbers == 1..NumRooms
RequestIds == 1..NumRequests
MoveRoomIds == 1..NumMoveRooms

\* An ObjectId that names no document of the users collection (or None).
NoUser == 0
\* No booking id: the exclude_booking_id=None default, the id of a failed create.
NoId == 0

(* ------------------------------ enums --------------------------------- *)
BOOKED == "booked"
CHECKED_IN == "checked-in"
CHECKED_OUT == "checked-out"
CANCELLED == "cancelled"
PENDING == "pending"
CHECKED_OUT_UNPAID == "checked-out-unpaid"

HotelBookingStatus ==
    {BOOKED, CHECKED_IN, CHECKED_OUT, CANCELLED, PENDING, CHECKED_OUT_UNPAID}

AVAILABLE == "available"
OCCUPIED == "occupied"
MAINTENANCE == "maintenance"

HotelRoomStatus == {AVAILABLE, OCCUPIED, MAINTENANCE}

\* The statuses a request of the model may carry: the first NumStatuses of
\* this order (a request may also leave the status unset).
StatusOrder ==
    <<BOOKED, CANCELLED, CHECKED_IN, CHECKED_OUT, PENDING, CHECKED_OUT_UNPAID>>

StatusInputs ==
    {StatusOrder[i] : i \in 1..(IF NumStatuses < 6 THEN NumStatuses ELSE 6)}

(* ---------------------- documents and dictionaries -------------------- *)
Has(d, k) == k \in DOMAIN d

\* dict.update / MongoDB $set: the fields of g replace or extend those of f.
SetFields(f, g) ==
    [k \in (DOMAIN f) \cup (DOMAIN g) |-> IF k \in DOMAIN g THEN g[k] ELSE f[k]]

\* dict.pop(k, None)
Pop(d, k) == IF k \notin DOMAIN d THEN d ELSE [j \in (DOMAIN d) \ {k} |-> d[j]]

(* ------------------------------ state --------------------------------- *)
VARIABLES
    rooms,      \* hotel_rooms collection: room id -> document
    bookings,   \* hotel_bookings collection: booking id -> document
    last,       \* the last request handled: operation, document id, result
    reqs        \* create requests handled concurrently, each at its own await

vars == <<rooms, bookings, last, reqs>>

(* ----------------------- models.py: HotelBooking ---------------------- *)
\* A request body is the set of fields the caller set, as a function from
\* field names to values.  room_id, check_in and check_out are required
\* fields of HotelBooking; status and created_by are optional.  The other
\* fields of the model (customer_name, total_price, ...) take no part in any
\* decision of the booking logic and are left out.
RequiredFields == [room_id : RoomIds, check_in : Times, check_out : Times]

WithStatus(S) ==
    {SetFields(b, [status |-> s]) : b \in S, s \in StatusInputs}

WithCreatedBy(S, owners) ==
    {SetFields(b, [created_by |-> u]) : b \in S, u \in owners}

\* Bodies of create requests: created_by names a user or no user at all.
CreatePayloads ==
    LET B == WithCreatedBy(RequiredFields, Users \cup {NoUser})
    IN  B \cup WithStatus(B)

\* Bodies of update requests: created_by is left unset or names a user.
UpdatePayloads ==
    LET B == RequiredFields \cup WithCreatedBy(RequiredFields, Users)
    IN  B \cup WithStatus(B)

\* The validator with the comparison weakened to v < check_in.
check_out_after_check_in_strict(v, check_in) == ~(v < check_in)

\* field_validator("check_out"): raises ValueError when v <= check_in, so the
\* HotelBooking is never constructed; TRUE when the validator lets v pass.
check_out_after_check_in(v, check_in) == ~(v <= check_in)

\* HotelBooking(**body): the model validates iff its validators pass.
model_validate(p) == check_out_after_check_in(p["check_out"], p["check_in"])

\* model_dump(by_alias=True, exclude_unset=True): the fields that were set,
\* under their alias where they have one (only id has one: "_id").
DumpKey(f) == IF f = "id" THEN "_id" ELSE f

model_dump(m) ==
    IF "id" \notin DOMAIN m THEN m
    ELSE [k \in {DumpKey(f) : f \in DOMAIN m} |->
             m[CHOOSE f \in DOMAIN m : DumpKey(f) = k]]

(* --------------- hotel_booking.py: _check_room_availability ----------- *)
\* datetime.astimezone(tz of the value itself): the same instant.
astimezone(t) == t

active_booking_statuses == {PENDING, BOOKED, CHECKED_IN, CHECKED_OUT_UNPAID}

\* The filter as the comment of lines 88-90 words it, on the fields the
\* documents hold: closed intervals, (StartA <= EndB) AND (EndA >= StartB).
query_matches_closed(id, doc, room_id, check_in_utc, check_out_utc, exclude_booking_id) ==
    /\ Has(doc, "room_id") /\ doc["room_id"] = room_id
    /\ Has(doc, "status") /\ doc["status"] \in {PENDING, BOOKED, CHECKED_IN, CHECKED_OUT_UNPAID}
    /\ Has(doc, "check_in") /\ doc["check_in"] <= check_out_utc
    /\ Has(doc, "check_out") /\ doc["check_out"] >= check_in_utc
    /\ (exclude_booking_id # NoId => id # exclude_booking_id)

\* The filter on the fields the documents hold, with its status test left out.
query_matches_any_status(id, doc, room_id, check_in_utc, check_out_utc, exclude_booking_id) ==
    /\ Has(doc, "room_id") /\ doc["room_id"] = room_id
    /\ Has(doc, "check_in") /\ doc["check_in"] < check_out_utc
    /\ Has(doc, "check_out") /\ doc["check_out"] > check_in_utc
    /\ (exclude_booking_id # NoId => id # exclude_booking_id)

\* The filter handed to count_documents, applied to one stored document.  A
\* comparison on a field the document lacks does not match.
query_matches(id, doc, room_id, check_in_utc, check_out_utc, exclude_booking_id) ==
    /\ Has(doc, "room_id") /\ doc["room_id"] = room_id
    /\ Has(doc, "status") /\ doc["status"] \in active_booking_statuses
    /\ Has(doc, "check_in_date") /\ doc["check_in_date"] < check_out_utc
    /\ Has(doc, "check_out_date") /\ doc["check_out_date"] > check_in_utc
    /\ (exclude_booking_id # NoId => id # exclude_booking_id)

count_documents(coll, room_id, check_in_utc, check_out_utc, exclude_booking_id) ==
    Cardinality({id \in DOMAIN coll :
        query_matches(id, coll[id], room_id, check_in_utc, check_out_utc,
                      exclude_booking_id)})

\* The room lookup without its maintenance test.
room_check_found_only(room_coll, room_id) ==
    IF room_id \notin DOMAIN room_coll THEN "404_room" ELSE "ok"

\* The three exits of the room lookup: 404, 400 (maintenance), or "ok".
room_check(room_coll, room_id) ==
    IF room_id \notin DOMAIN room_coll THEN "404_room"
    ELSE IF Has(room_coll[room_id], "status")
            /\ room_coll[room_id]["status"] = MAINTENANCE THEN "400_maintenance"
    ELSE "ok"

\* The comparison inverted: overlapping_bookings_count != 0.
count_result_inverted(n) == IF n # 0 THEN "available" ELSE "unavailable"

\* overlapping_bookings_count == 0
count_result(n) == IF n = 0 THEN "available" ELSE "unavailable"

\* Result: "available" / "unavailable" for the returned True / False, or the
\* HTTPException raised.
check_room_availability(room_coll, coll, room_id, check_in, check_out, exclude_booking_id) ==
    LET check_in_utc == astimezone(check_in)
        check_out_utc == astimezone(check_out)
    IN  IF check_in_utc >= check_out_utc THEN "400_interval"
        ELSE IF room_check(room_coll, room_id) # "ok"
             THEN room_check(room_coll, room_id)
        ELSE count_result(count_documents(coll, room_id, check_in_utc,
                                          check_out_utc, exclude_booking_id))

IsVerdict(r) == r \in {"available", "unavailable"}

(* -------------------- hotel_booking.py: create_booking ---------------- *)
\* A call of _check_room_availability that marks the room it found free as
\* occupied.
run_check_room_availability_reserving(room_id, check_in, check_out, exclude_booking_id) ==
    /\ UNCHANGED <<bookings, reqs>>
    /\ \E r \in {check_room_availability(rooms, bookings, room_id, check_in,
                                         check_out, exclude_booking_id)} :
          /\ rooms' = IF r = "available"
                      THEN [rooms EXCEPT ![room_id] =
                               SetFields(@, [status |-> OCCUPIED])]
                      ELSE rooms
          /\ last' = [op |-> "_check_room_availability", id |-> exclude_booking_id,
                      result |-> r, old |-> <<>>]

\* One call of _check_room_availability: a find_one on the rooms and a
\* count_documents on the bookings, nothing written.
run_check_room_availability(room_id, check_in, check_out, exclude_booking_id) ==
    /\ UNCHANGED <<rooms, bookings, reqs>>
    /\ last' = [op |-> "_check_room_availability", id |-> exclude_booking_id,
                result |-> check_room_availability(rooms, bookings, room_id,
                                                   check_in, check_out,
                                                   exclude_booking_id),
                old |-> <<>>]

\* users_collection.find_one({"_id": booking_data.created_by})
user_found(p) == Has(p, "created_by") /\ p["created_by"] \in Users

\* The outcome of create_booking on body p in the current state.
create_result(p) ==
    IF ~model_validate(p) THEN "ValidationError"
    ELSE IF ~user_found(p) THEN "404_user"
    ELSE LET a == check_room_availability(rooms, bookings, p["room_id"],
                                          p["check_in"], p["check_out"], NoId)
         IN  IF ~IsVerdict(a) THEN a
             ELSE IF a = "unavailable" THEN "409"
             ELSE "created"

\* booking_data.status is never empty (the model defaults it to BOOKED), so
\* line 148 never assigns it and the document holds only the fields set.
booking_dict(p) == model_dump(p)

insert_one(coll, id, doc) ==
    [i \in (DOMAIN coll) \cup {id} |-> IF i = id THEN doc ELSE coll[i]]

\* create_booking with insert_one moved ahead of the lookups of lines
\* 125-144: the document is stored whatever the request ends in.
create_store_unchecked(p, id) == insert_one(bookings, id, booking_dict(p))

\* The collection create_booking(p) leaves behind when the store assigns id.
create_store(p, id) ==
    IF create_result(p) = "created"
    THEN insert_one(bookings, id, booking_dict(p))
    ELSE bookings

create_booking(p) ==
    /\ UNCHANGED <<rooms, reqs>>
    /\ \E r \in {create_result(p)} :
          IF r = "created"
          THEN \E id \in BookingIds \ DOMAIN bookings :
                   /\ bookings' = create_store(p, id)
                   /\ last' = [op |-> "create_booking", id |-> id,
                               result |-> r, old |-> <<>>]
          ELSE /\ bookings' = create_store(p, NoId)
               /\ last' = [op |-> "create_booking", id |-> NoId,
                           result |-> r, old |-> <<>>]

(* -------------------- hotel_booking.py: update_booking ---------------- *)
\* update_data.get(key) and update_data[key] != current.get(key): the values
\* are ObjectIds and datetimes, which are never falsy.
field_changed(update_data, current, key) ==
    /\ Has(update_data, key)
    /\ (~Has(current, key) \/ update_data[key] # current[key])

room_id_changed(update_data, current) ==
    field_changed(update_data, current, "room_id")

\* The change test reading the key the documents do hold, "check_in".
check_in_changed_on_check_in(update_data, current) ==
    field_changed(update_data, current, "check_in")

check_in_changed(update_data, current) ==
    field_changed(update_data, current, "check_in_date")

check_out_changed(update_data, current) ==
    field_changed(update_data, current, "check_out_date")

\* update_data.get(key, current[key]): the default is evaluated first, so a
\* key current lacks raises KeyError whatever update_data holds.
get_default(update_data, current, key) ==
    IF Has(update_data, key) THEN update_data[key] ELSE current[key]

update_data_of(p) == Pop(Pop(model_dump(p), "_id"), "id")

\* Lines 226-247: "pass", or the exception that leaves the handler.
recheck(room_coll, coll, id, update_data, current) ==
    IF ~(\/ room_id_changed(update_data, current)
         \/ check_in_changed(update_data, current)
         \/ check_out_changed(update_data, current)) THEN "pass"
    ELSE IF \E k \in {"room_id", "check_in_date", "check_out_date"} :
                ~Has(current, k) THEN "KeyError"
    ELSE LET a == check_room_availability(room_coll, coll,
                      get_default(update_data, current, "room_id"),
                      get_default(update_data, current, "check_in_date"),
                      get_default(update_data, current, "check_out_date"),
                      id)
         IN  IF ~IsVerdict(a) THEN a
             ELSE IF a = "unavailable" THEN "409"
             ELSE "pass"

\* Lines 250-257: the guard on the owner field.
user_id_guard(update_data, current) ==
    IF ~Has(update_data, "user_id") THEN "pass"
    ELSE IF ~Has(current, "user_id") THEN "KeyError"
    ELSE IF update_data["user_id"] # current["user_id"] THEN "400_user_id"
    ELSE "pass"

\* update_booking without the lookup of lines 205-209: an id that matches no
\* document is seen only as modified_count == 0.
update_result_unchecked(id, p, same_instant) ==
    IF ~model_validate(p) THEN "ValidationError"
    ELSE IF id \notin DOMAIN bookings THEN "304"
    ELSE LET update_data == update_data_of(p)
             current == bookings[id]
             checked == recheck(rooms, bookings, id, update_data, current)
             guarded == user_id_guard(update_data, current)
         IN  IF checked # "pass" THEN checked
             ELSE IF guarded # "pass" THEN guarded
             ELSE IF same_instant /\ SetFields(current, update_data) = current
             THEN "304"
             ELSE "updated"

\* The outcome of update_booking(id, p).  same_instant: default_time() gave
\* the updated_at the document already holds, so that a $set that changes no
\* other field modifies nothing.
update_result(id, p, same_instant) ==
    IF ~model_validate(p) THEN "ValidationError"
    ELSE IF id \notin DOMAIN bookings THEN "None"
    ELSE LET update_data == update_data_of(p)
             current == bookings[id]
             checked == recheck(rooms, bookings, id, update_data, current)
             guarded == user_id_guard(update_data, current)
         IN  IF checked # "pass" THEN checked
             ELSE IF guarded # "pass" THEN guarded
             ELSE IF same_instant /\ SetFields(current, update_data) = current
             THEN "304"
             ELSE "updated"

update_one(coll, id, update_data) ==
    [i \in DOMAIN coll |->
        IF i = id THEN SetFields(coll[i], update_data) ELSE coll[i]]

\* The collection update_booking(id, p) leaves behind.
update_store(id, p, same_instant) ==
    IF update_result(id, p, same_instant) = "updated"
    THEN update_one(bookings, id, update_data_of(p))
    ELSE bookings

\* last.old keeps the interval the booking had before a successful update.
update_booking(id, p, same_instant) ==
    /\ UNCHANGED <<rooms, reqs>>
    /\ bookings' = update_store(id, p, same_instant)
    /\ \E r \in {update_result(id, p, same_instant)} :
          last' = [op |-> "update_booking", id |-> id, result |-> r,
                   old |-> IF r = "updated"
                           THEN <<bookings[id]["check_in"],
                                  bookings[id]["check_out"]>>
                           ELSE <<>>]

(* -------------------- hotel_booking.py: delete_booking ---------------- *)
\* delete_one with a filter on the key "id", which no stored document holds.
delete_one_by_id_field(coll, id) == coll

delete_one(coll, id) == [i \in (DOMAIN coll) \ {id} |-> coll[i]]

delete_booking(id) ==
    /\ UNCHANGED <<rooms, reqs>>
    /\ bookings' = delete_one(bookings, id)
    /\ last' = [op |-> "delete_booking", id |-> id, old |-> <<>>,
                result |-> IF id \in DOMAIN bookings THEN "True" ELSE "False"]


(* ------------------------ hotel_room.py: HotelRoomCRUD ---------------- *)
\* Bodies of room requests: room_number is required, status is optional (type
\* and price, required too, take no part in any decision and are left out).
RoomPayloads ==
    LET B == [room_number : RoomNumbers]
    IN  B \cup {SetFields(b, [status |-> st]) : b \in B, st \in HotelRoomStatus}

\* find_one({"room_number": n, "_id": {"$ne": except}})
room_number_taken(n, except) ==
    \E r \in (DOMAIN rooms) \ {except} :
        Has(rooms[r], "room_number") /\ rooms[r]["room_number"] = n

create_room_result(q) ==
    IF room_number_taken(q["room_number"], NoId) THEN "400_room_number"
    ELSE "created"

create_room(q) ==
    /\ UNCHANGED <<bookings, reqs>>
    /\ \E r \in {create_room_result(q)} :
          IF r = "created"
          THEN \E id \in RoomIds \ DOMAIN rooms :
                   /\ rooms' = insert_one(rooms, id, model_dump(q))
                   /\ last' = [op |-> "create_room", id |-> id, result |-> r,
                               old |-> <<>>]
          ELSE /\ rooms' = rooms
               /\ last' = [op |-> "create_room", id |-> NoId, result |-> r,
                           old |-> <<>>]

\* modified_count == 0 when no document has the id, or when the $set leaves
\* the document as it was (same_instant: updated_at did not move either).
update_room_result(room_id, q, same_instant) ==
    LET update_data == Pop(Pop(model_dump(q), "_id"), "id")
    IN  IF Has(update_data, "room_number")
           /\ room_number_taken(update_data["room_number"], room_id)
        THEN "400_room_number"
        ELSE IF room_id \notin DOMAIN rooms THEN "None"
        ELSE IF same_instant /\ SetFields(rooms[room_id], update_data) = rooms[room_id]
        THEN "304"
        ELSE "updated"

update_room(room_id, q, same_instant) ==
    /\ UNCHANGED <<bookings, reqs>>
    /\ \E r \in {update_room_result(room_id, q, same_instant)} :
          /\ last' = [op |-> "update_room", id |-> room_id, result |-> r,
                      old |-> <<>>]
          /\ IF r = "updated"
             THEN rooms' = update_one(rooms, room_id,
                                      Pop(Pop(model_dump(q), "_id"), "id"))
             ELSE rooms' = rooms

\* delete_room that also deletes the bookings of the room.
delete_room_cascading(room_id) ==
    /\ UNCHANGED reqs
    /\ rooms' = delete_one(rooms, room_id)
    /\ bookings' = [b \in {i \in DOMAIN bookings : bookings[i]["room_id"] # room_id}
                      |-> bookings[b]]
    /\ last' = [op |-> "delete_room", id |-> room_id, old |-> <<>>,
                result |-> IF room_id \in DOMAIN rooms THEN "True" ELSE "False"]

delete_room(room_id) ==
    /\ UNCHANGED <<bookings, reqs>>
    /\ rooms' = delete_one(rooms, room_id)
    /\ last' = [op |-> "delete_room", id |-> room_id, old |-> <<>>,
                result |-> IF room_id \in DOMAIN rooms THEN "True" ELSE "False"]

(* ------------- create_booking as a coroutine: one step per await ------ *)
\* Lines 126-144: the user lookup, the room lookup and count_documents.  No
\* request of this specification writes users or rooms, so the three reads
\* are taken at the instant of the last one.  saw keeps the ids the bookings
\* collection held at that instant.
create_check(k, p) ==
    /\ reqs[k].pc = "new"
    /\ UNCHANGED <<rooms, bookings, last>>
    /\ \E r \in {create_result(p)} :
          reqs' = [reqs EXCEPT ![k] =
                      [pc |-> IF r = "created" THEN "checked" ELSE "done",
                       body |-> p, result |-> r, id |-> NoId,
                       saw |-> DOMAIN bookings]]

\* Line 155: insert_one.
create_insert(k) ==
    /\ reqs[k].pc = "checked"
    /\ UNCHANGED <<rooms, last>>
    /\ \E id \in BookingIds \ DOMAIN bookings :
          /\ bookings' = insert_one(bookings, id, booking_dict(reqs[k].body))
          /\ reqs' = [reqs EXCEPT ![k].pc = "inserted", ![k].id = id]

\* Lines 157-166: the read-back of the inserted document and the return.
create_return(k) ==
    /\ reqs[k].pc = "inserted"
    /\ UNCHANGED <<rooms, bookings, last>>
    /\ reqs' = [reqs EXCEPT ![k].pc = "done",
                            ![k].result = IF reqs[k].id \in DOMAIN bookings
                                          THEN "created" ELSE "500"]

\* update_booking as the steps other requests can interleave with: one step
\* per visit to the database.  Lines 205-209: the lookup of the booking.
update_find(k, id, p) ==
    /\ reqs[k].pc = "new"
    /\ UNCHANGED <<rooms, bookings, last>>
    /\ reqs' = [reqs EXCEPT ![k] =
                  [pc |-> IF model_validate(p) /\ id \in DOMAIN bookings
                          THEN "found" ELSE "done",
                   id |-> id, body |-> p,
                   current |-> IF id \in DOMAIN bookings THEN bookings[id]
                               ELSE <<>>,
                   result |-> IF ~model_validate(p) THEN "ValidationError"
                              ELSE IF id \notin DOMAIN bookings THEN "None"
                              ELSE "none",
                   matched |-> FALSE]]

\* Lines 211-257: the re-check against the rooms and bookings as they are
\* now, and the guard on the owner field, both with the document read by the
\* lookup.
update_check(k) ==
    /\ reqs[k].pc = "found"
    /\ UNCHANGED <<rooms, bookings, last>>
    /\ LET update_data == update_data_of(reqs[k].body)
           checked == recheck(rooms, bookings, reqs[k].id, update_data,
                              reqs[k].current)
           guarded == user_id_guard(update_data, reqs[k].current)
       IN  reqs' = [reqs EXCEPT
                      ![k].pc = IF checked = "pass" /\ guarded = "pass"
                                THEN "checked" ELSE "done",
                      ![k].result = IF checked # "pass" THEN checked
                                    ELSE IF guarded # "pass" THEN guarded
                                    ELSE "none"]

\* Lines 260-270: update_one with the filter on _id, then the test of
\* modified_count, which is 0 when no document matched and when the $set
\* changed nothing.
update_write(k, same_instant) ==
    /\ reqs[k].pc = "checked"
    /\ UNCHANGED <<rooms, last>>
    /\ LET id == reqs[k].id
           update_data == update_data_of(reqs[k].body)
           matched == id \in DOMAIN bookings
           modified == /\ matched
                       /\ ~(same_instant
                            /\ SetFields(bookings[id], update_data) = bookings[id])
       IN  /\ bookings' = IF modified THEN update_one(bookings, id, update_data)
                          ELSE bookings
           /\ reqs' = [reqs EXCEPT
                         ![k].pc = IF modified THEN "written" ELSE "done",
                         ![k].result = IF modified THEN "none" ELSE "304",
                         ![k].matched = matched]

\* Lines 272-281: the read-back of the document and the return.
update_return(k) ==
    /\ reqs[k].pc = "written"
    /\ UNCHANGED <<rooms, bookings, last>>
    /\ reqs' = [reqs EXCEPT ![k].pc = "done",
                            ![k].result = IF reqs[k].id \in DOMAIN bookings
                                          THEN "updated" ELSE "500"]

(* ------------------ main.py: the hotel booking endpoints -------------- *)
\* utils.py, UserRole: member name -> value.
UserRole ==
    [ADMIN |-> "admin", FRONT_DESK |-> "front-desk",
     BACK_DESK |-> "back-desk", CUSTOMER |-> "customer"]

Roles == {UserRole[m] : m \in DOMAIN UserRole}

\* utils.py, HotelBookingStatus: member name -> value.
HotelBookingStatusMembers ==
    [BOOKED |-> BOOKED, CHECKED_IN |-> CHECKED_IN, CHECKED_OUT |-> CHECKED_OUT,
     CANCELLED |-> CANCELLED, PENDING |-> PENDING,
     CHECKED_OUT_UNPAID |-> CHECKED_OUT_UNPAID]

\* Enum.<member>: the value of the member, AttributeError for a name the enum
\* does not define.
enum_value(enum, member) ==
    IF member \in DOMAIN enum THEN enum[member] ELSE "AttributeError"

\* The attributes of a HotelBooking instance: the fields of the model.
HotelBookingFields ==
    {"id", "customer_name", "customer_phone", "room_id", "check_in",
     "check_out", "number_of_guests", "special_requests", "total_price",
     "status", "created_by", "created_at", "updated_at"}

\* The user ids a token carries: the token payload is not looked up in the
\* users collection, so the id may be that of an account deleted since.
CallerIds == Users \cup {NoUser}

\* get_current_user_payload: the decoded token, {"role": ..., "user_id": ...}.
Callers == [role : Roles, user_id : CallerIds]

\* _process_hotel_booking_doc: the stored document as a HotelBooking; a field
\* the document lacks takes the default of the model.
process_hotel_booking_doc(doc) == SetFields([status |-> BOOKED], doc)

\* Lines 357-364 and 388-395: the test that a guest touches only a booking of
\* their own.  "pass", 403, or the AttributeError of a name that is not there.
guest_owner_check(current_user_payload, booking) ==
    LET guest == enum_value(UserRole, "GUEST")
    IN  IF guest = "AttributeError" THEN "AttributeError"
        ELSE IF current_user_payload.role # guest THEN "pass"
        ELSE IF "user_id" \notin HotelBookingFields THEN "AttributeError"
        ELSE IF booking["user_id"] # current_user_payload.user_id THEN "403"
        ELSE "pass"

allowed_fields == {"notes", "status"}

\* Lines 398-421: what a guest may set.  booking is the request body as a
\* HotelBooking, update_data_keys the fields the request set.
guest_fields_check(current_user_payload, update_data_keys, booking, current_booking) ==
    LET guest == enum_value(UserRole, "GUEST")
    IN  IF guest = "AttributeError" THEN "AttributeError"
        ELSE IF current_user_payload.role # guest THEN "pass"
        ELSE IF ~(update_data_keys \subseteq allowed_fields) THEN "403_fields"
        ELSE IF ~("status" \in update_data_keys
                  /\ booking["status"] # current_booking["status"]) THEN "pass"
        ELSE IF enum_value(HotelBookingStatusMembers, "cancelled") = "AttributeError"
             THEN "AttributeError"
        ELSE IF booking["status"] # CANCELLED THEN "403_status"
        ELSE "pass"

\* create_hotel_booking, lines 312-324: the outcome on body p for the caller.
create_hotel_booking_result(current_user_id, p) ==
    IF ~model_validate(p) THEN "ValidationError"
    ELSE IF "user_id" \notin HotelBookingFields THEN "AttributeError"
    ELSE IF p["user_id"] # current_user_id THEN "403"
    ELSE create_result(p)

\* get_hotel_booking_by_id, lines 345-366: "200" for the booking returned.
get_hotel_booking_by_id_result(current_user_payload, booking_id) ==
    IF booking_id \notin DOMAIN bookings THEN "404"
    ELSE LET booking == process_hotel_booking_doc(bookings[booking_id])
             owner == guest_owner_check(current_user_payload, booking)
         IN  IF owner # "pass" THEN owner ELSE "200"

\* update_hotel_booking, lines 375-428.
update_hotel_booking_result(current_user_payload, booking_id, p, same_instant) ==
    IF ~model_validate(p) THEN "ValidationError"
    ELSE IF booking_id \notin DOMAIN bookings THEN "404"
    ELSE LET current_booking == process_hotel_booking_doc(bookings[booking_id])
             booking == process_hotel_booking_doc(p)
             owner == guest_owner_check(current_user_payload, current_booking)
             fields == guest_fields_check(current_user_payload, DOMAIN p,
                                          booking, current_booking)
             updated == update_result(booking_id, p, same_instant)
         IN  IF owner # "pass" THEN owner
             ELSE IF fields # "pass" THEN fields
             ELSE IF updated = "None" THEN "404"
             ELSE updated

\* The collection update_hotel_booking leaves behind.
update_hotel_booking_store(current_user_payload, booking_id, p, same_instant) ==
    IF update_hotel_booking_result(current_user_payload, booking_id, p,
                                   same_instant) = "updated"
    THEN update_store(booking_id, p, same_instant)
    ELSE bookings

\* auth_utils.py, is_staff_or_admin = has_role([BACK_DESK, ADMIN]).
is_staff_or_admin(current_user_role) ==
    current_user_role \in {UserRole["BACK_DESK"], UserRole["ADMIN"]}

\* delete_hotel_booking, lines 431-445.
delete_hotel_booking_result(current_user_payload, booking_id) ==
    IF ~is_staff_or_admin(current_user_payload.role) THEN "403"
    ELSE IF booking_id \notin DOMAIN bookings THEN "404"
    ELSE "204"

create_hotel_booking(caller, p) ==
    /\ UNCHANGED <<rooms, reqs>>
    /\ \E r \in {create_hotel_booking_result(caller.user_id, p)} :
          IF r = "created"
          THEN \E id \in BookingIds \ DOMAIN bookings :
                   /\ bookings' = create_store(p, id)
                   /\ last' = [op |-> "create_hotel_booking", id |-> id,
                               result |-> r, old |-> <<>>]
          ELSE /\ bookings' = bookings
               /\ last' = [op |-> "create_hotel_booking", id |-> NoId,
                           result |-> r, old |-> <<>>]

get_hotel_booking_by_id(caller, booking_id) ==
    /\ UNCHANGED <<rooms, bookings, reqs>>
    /\ last' = [op |-> "get_hotel_booking_by_id", id |-> booking_id,
                result |-> get_hotel_booking_by_id_result(caller, booking_id),
                old |-> <<>>]

update_hotel_booking(caller, booking_id, p, same_instant) ==
    /\ UNCHANGED <<rooms, reqs>>
    /\ bookings' = update_hotel_booking_store(caller, booking_id, p, same_instant)
    /\ last' = [op |-> "update_hotel_booking", id |-> booking_id,
                result |-> update_hotel_booking_result(caller, booking_id, p,
                                                       same_instant),
                old |-> <<>>]

delete_hotel_booking(caller, booking_id) ==
    /\ UNCHANGED <<rooms, reqs>>
    /\ \E r \in {delete_hotel_booking_result(caller, booking_id)} :
          /\ bookings' = IF r = "204" THEN delete_one(bookings, booking_id)
                         ELSE bookings
          /\ last' = [op |-> "delete_hotel_booking", id |-> booking_id,
                      result |-> r, old |-> <<>>]

(* --------------------------- specification ---------------------------- *)
EmptyColl == [i \in {} |-> 0]

NoRequest == [op |-> "none", id |-> NoId, result |-> "none", old |-> <<>>]

NewRequest == [pc |-> "new"]

\* Every room of the hotel exists and is available; nothing is booked yet.
Init ==
    /\ rooms = [r \in RoomIds |-> [room_number |-> r, status |-> AVAILABLE]]
    /\ bookings = EmptyColl
    /\ last = NoRequest
    /\ reqs = [k \in RequestIds |-> NewRequest]

CreateBooking == \E p \in CreatePayloads : create_booking(p)

\* default_time() can repeat the stored updated_at only within one clock
\* tick; the choice matters only to a $set that changes no other field.
no_field_changes(id, p) ==
    /\ id \in DOMAIN bookings
    /\ SetFields(bookings[id], update_data_of(p)) = bookings[id]

UpdateBooking ==
    \E id \in BookingIds, p \in UpdatePayloads :
        \E same_instant \in (IF no_field_changes(id, p) THEN BOOLEAN ELSE {FALSE}) :
            update_booking(id, p, same_instant)

DeleteBooking == \E id \in BookingIds : delete_booking(id)

Next == CreateBooking \/ UpdateBooking \/ DeleteBooking

Spec == Init /\ [][Next]_vars

\* ---- the empty database, with the room operations
\* Bodies of the booking requests of this specification: stays that start at
\* time 0.
EarlyCreatePayloads == {p \in CreatePayloads : p["check_in"] = 0}

InitEmpty ==
    /\ rooms = EmptyColl
    /\ bookings = EmptyColl
    /\ last = NoRequest
    /\ reqs = [k \in RequestIds |-> NewRequest]

CreateRoom == \E q \in RoomPayloads : create_room(q)

UpdateRoom ==
    \E room_id \in RoomIds, q \in RoomPayloads, same_instant \in BOOLEAN :
        update_room(room_id, q, same_instant)

DeleteRoom == \E room_id \in RoomIds : delete_room(room_id)

CreateEarlyBooking == \E p \in EarlyCreatePayloads : create_booking(p)

NextRooms ==
    CreateRoom \/ UpdateRoom \/ DeleteRoom \/ CreateEarlyBooking \/ DeleteBooking

SpecRooms == InitEmpty /\ [][NextRooms]_vars

\* ---- the empty database, with the room operations and the availability
\* check called on its own
CheckRoomAvailability ==
    \E room_id \in RoomIds, check_in \in Times, check_out \in Times,
       exclude_booking_id \in BookingIds \cup {NoId} :
        run_check_room_availability(room_id, check_in, check_out, exclude_booking_id)

NextCheck == NextRooms \/ CheckRoomAvailability

SpecCheck == InitEmpty /\ [][NextCheck]_vars

\* ---- create requests that interleave at their awaits
\* Bodies of the concurrent create requests: the owner exists and the status
\* is given.
RacePayloads == {p \in CreatePayloads : user_found(p) /\ Has(p, "status")}

CreateCheck == \E k \in RequestIds, p \in RacePayloads : create_check(k, p)

CreateInsert == \E k \in RequestIds : create_insert(k)

CreateReturn == \E k \in RequestIds : create_return(k)

NextRace == CreateCheck \/ CreateInsert \/ CreateReturn

SpecRace == Init /\ [][NextRace]_vars

\* ---- a hotel of several rooms, with bookings moved between them
\* Bodies of the requests of this specification.  A create request names its
\* owner and states the status booked; an update request sets the three
\* required fields only.
MoveFields == [room_id : MoveRoomIds, check_in : Times, check_out : Times]

MoveCreatePayloads ==
    {SetFields(b, [status |-> BOOKED]) : b \in WithCreatedBy(MoveFields, Users)}

MoveUpdatePayloads == MoveFields

InitMove ==
    /\ rooms = [r \in MoveRoomIds |-> [room_number |-> r, status |-> AVAILABLE]]
    /\ bookings = EmptyColl
    /\ last = NoRequest
    /\ reqs = [k \in RequestIds |-> NewRequest]

CreateMoveBooking == \E p \in MoveCreatePayloads : create_booking(p)

UpdateMoveBooking ==
    \E id \in BookingIds, p \in MoveUpdatePayloads :
        \E same_instant \in (IF no_field_changes(id, p) THEN BOOLEAN ELSE {FALSE}) :
            update_booking(id, p, same_instant)

NextMove == CreateMoveBooking \/ UpdateMoveBooking \/ DeleteBooking

SpecMove == InitMove /\ [][NextMove]_vars

\* ---- bookings driven through their statuses
\* Bodies of the requests of this specification: stays that start at time 0.
\* A create request leaves the status unset or states one of the two statuses
\* the code gives a new booking (the model's default and that of line 148);
\* an update request leaves it unset or states any status.
InitialStatuses == {BOOKED, PENDING}

StatusFields == {b \in RequiredFields : b["check_in"] = 0}

StatusCreatePayloads ==
    LET B == WithCreatedBy(StatusFields, Users)
    IN  B \cup {SetFields(b, [status |-> s]) : b \in B, s \in InitialStatuses}

StatusUpdatePayloads ==
    StatusFields
    \cup {SetFields(b, [status |-> s]) : b \in StatusFields, s \in HotelBookingStatus}

CreateStatusBooking == \E p \in StatusCreatePayloads : create_booking(p)

UpdateStatusBooking ==
    \E id \in BookingIds, p \in StatusUpdatePayloads :
        \E same_instant \in (IF no_field_changes(id, p) THEN BOOLEAN ELSE {FALSE}) :
            update_booking(id, p, same_instant)

NextStatus == CreateStatusBooking \/ UpdateStatusBooking \/ DeleteBooking

SpecStatus == Init /\ [][NextStatus]_vars

\* ---- the hotel booking endpoints, called with a token
\* HotelBookingCRUD.create_booking fills the store; every other request goes
\* through an endpoint.
CreateHotelBooking ==
    \E caller \in Callers, p \in StatusCreatePayloads : create_hotel_booking(caller, p)

GetHotelBookingById ==
    \E caller \in Callers, id \in BookingIds : get_hotel_booking_by_id(caller, id)

UpdateHotelBooking ==
    \E caller \in Callers, id \in BookingIds, p \in StatusUpdatePayloads :
        \E same_instant \in (IF no_field_changes(id, p) THEN BOOLEAN ELSE {FALSE}) :
            update_hotel_booking(caller, id, p, same_instant)

DeleteHotelBooking ==
    \E caller \in Callers, id \in BookingIds : delete_hotel_booking(caller, id)

NextApi ==
    \/ CreateStatusBooking
    \/ CreateHotelBooking
    \/ GetHotelBookingById
    \/ UpdateHotelBooking
    \/ DeleteHotelBooking

SpecApi == Init /\ [][NextApi]_vars

\* ---- updates that name an owner
\* Bodies of the requests of this specification: no status; a create request
\* names a user as created_by; an update request names a user or an id that
\* is no user's (update_booking does not look the id up).
OwnerCreatePayloads == WithCreatedBy(RequiredFields, Users)

OwnerUpdatePayloads == WithCreatedBy(RequiredFields, Users \cup {NoUser})

CreateOwnedBooking == \E p \in OwnerCreatePayloads : create_booking(p)

UpdateOwnedBooking ==
    \E id \in BookingIds, p \in OwnerUpdatePayloads :
        \E same_instant \in (IF no_field_changes(id, p) THEN BOOLEAN ELSE {FALSE}) :
            update_booking(id, p, same_instant)

NextOwner == CreateOwnedBooking \/ UpdateOwnedBooking \/ DeleteBooking

SpecOwner == Init /\ [][NextOwner]_vars

\* ---- update requests that interleave with deletes at their awaits
\* Bodies of the concurrent update requests: the three required fields of a
\* stay that starts at time 0.
\* The bookings they meet were created with the same fields and an owner.
CreateStayBooking ==
    \E p \in WithCreatedBy(StatusFields, Users) : create_booking(p)

UpdateFind ==
    \E k \in RequestIds, id \in BookingIds, p \in StatusFields : update_find(k, id, p)

UpdateCheck == \E k \in RequestIds : update_check(k)

UpdateWrite ==
    \E k \in RequestIds, same_instant \in BOOLEAN : update_write(k, same_instant)

UpdateReturn == \E k \in RequestIds : update_return(k)

NextUpdateRace ==
    \/ CreateStayBooking
    \/ DeleteBooking
    \/ UpdateFind
    \/ UpdateCheck
    \/ UpdateWrite
    \/ UpdateReturn

SpecUpdateRace == Init /\ [][NextUpdateRace]_vars

TypeOK ==
    /\ DOMAIN bookings \subseteq BookingIds
    /\ \A id \in DOMAIN bookings :
          {"room_id", "check_in", "check_out", "created_by"} \subseteq DOMAIN bookings[id]

(* ============================= properties ============================= *)
\* Half-open interval intersection of [s1, e1) and [s2, e2).
Overlap(s1, e1, s2, e2) == s1 < e2 /\ e1 > s2

\* The intervals only touch: one starts where the other ends.
Touch(s1, e1, s2, e2) == (s1 = e2 \/ e1 = s2) /\ ~Overlap(s1, e1, s2, e2)

ActiveStatuses == {PENDING, BOOKED, CHECKED_IN, CHECKED_OUT_UNPAID}

HoldsActive(doc) == Has(doc, "status") /\ doc["status"] \in ActiveStatuses

\* The stored bookings of a room, other than excl, that hold an active status
\* and overlap [s, e).
Blocking(room, s, e, excl) ==
    {b \in (DOMAIN bookings) \ {excl} :
        /\ bookings[b]["room_id"] = room
        /\ HoldsActive(bookings[b])
        /\ Overlap(bookings[b]["check_in"], bookings[b]["check_out"], s, e)}

\* The stored active bookings of a room, other than excl, that [s, e) touches.
Touching(room, s, e, excl) ==
    {b \in (DOMAIN bookings) \ {excl} :
        /\ bookings[b]["room_id"] = room
        /\ HoldsActive(bookings[b])
        /\ Touch(bookings[b]["check_in"], bookings[b]["check_out"], s, e)}

Bookable(room) ==
    /\ room \in DOMAIN rooms
    /\ ~(Has(rooms[room], "status") /\ rooms[room]["status"] = MAINTENANCE)

\* A create request that names an existing user, a bookable room and an
\* interval with start < end.
WellFormedCreate(p) ==
    /\ p["check_in"] < p["check_out"]
    /\ Has(p, "created_by") /\ p["created_by"] \in Users
    /\ Bookable(p["room_id"])

FreeIds == BookingIds \ DOMAIN bookings

Interval(doc) == <<doc["check_in"], doc["check_out"]>>

\* C1: with requests handled one at a time, no two stored bookings of the
\* same room with overlapping [check_in, check_out) both hold an active
\* status.
C1_NoDoubleBooking ==
    \A a \in DOMAIN bookings : \A b \in (DOMAIN bookings) \ {a} :
        (/\ bookings[a]["room_id"] = bookings[b]["room_id"]
         /\ HoldsActive(bookings[a]) /\ HoldsActive(bookings[b]))
        => ~Overlap(bookings[a]["check_in"], bookings[a]["check_out"],
                    bookings[b]["check_in"], bookings[b]["check_out"])

\* C2: a create request for a room that has an active booking overlapping the
\* requested interval fails with 409 and stores nothing.
C2_CreateConflictRejected ==
    \A p \in CreatePayloads :
        (WellFormedCreate(p)
         /\ Blocking(p["room_id"], p["check_in"], p["check_out"], NoId) # {})
        => /\ create_result(p) = "409"
           /\ \A id \in FreeIds : create_store(p, id) = bookings

\* C4: for an existing non-maintenance room and start < end,
\* _check_room_availability returns true exactly when no stored booking of the
\* room other than the excluded one is active and overlaps, and false
\* otherwise.
C4_AvailabilityIffNoOverlap ==
    \A room \in RoomIds, s \in Times, e \in Times, excl \in BookingIds \cup {NoId} :
        (Bookable(room) /\ s < e)
        => check_room_availability(rooms, bookings, room, s, e, excl)
             = (IF Blocking(room, s, e, excl) = {} THEN "available"
                ELSE "unavailable")

C6_InvalidIntervalIs400 ==
    /\ \A p \in CreatePayloads :
          p["check_out"] <= p["check_in"]
          => /\ create_result(p) = "400_interval"
             /\ \A id \in FreeIds : create_store(p, id) = bookings
    /\ \A id \in BookingIds, p \in UpdatePayloads, same_instant \in BOOLEAN :
          p["check_out"] <= p["check_in"]
          => /\ update_result(id, p, same_instant) = "400_interval"
             /\ update_store(id, p, same_instant) = bookings

\* C6 amended: a create or update request with end <= start is rejected by
\* the HotelBooking validator (a validation error, before the handler and its
\* 400 are reached) and leaves the stored bookings unchanged.
C6_InvalidIntervalRejected ==
    /\ \A p \in CreatePayloads :
          p["check_out"] <= p["check_in"]
          => /\ create_result(p) = "ValidationError"
             /\ \A id \in FreeIds : create_store(p, id) = bookings
    /\ \A id \in BookingIds, p \in UpdatePayloads, same_instant \in BOOLEAN :
          p["check_out"] <= p["check_in"]
          => /\ update_result(id, p, same_instant) = "ValidationError"
             /\ update_store(id, p, same_instant) = bookings

\* C6 witness: an update of a stored booking was rejected for its interval.
C6_Witness ==
    /\ last.op = "update_booking" /\ last.result = "ValidationError"
    /\ last.id \in DOMAIN bookings

\* C7: every stored booking has end > start.
C7_EndAfterStart ==
    \A b \in DOMAIN bookings :
        /\ Has(bookings[b], "check_in") /\ Has(bookings[b], "check_out")
        /\ bookings[b]["check_out"] > bookings[b]["check_in"]

\* C7 witness: the last request was an update that changed the interval of a
\* stored booking.
C7_Witness ==
    /\ last.op = "update_booking" /\ last.result = "updated"
    /\ last.old # Interval(bookings[last.id])

\* An update request that keeps the room of booking id and moves it to
\* another interval with start < end.
MovesInterval(id, p) ==
    /\ id \in DOMAIN bookings
    /\ p["check_in"] < p["check_out"]
    /\ p["room_id"] = bookings[id]["room_id"]
    /\ Interval(p) # Interval(bookings[id])

\* C9: an update that moves a booking, within its room, to an interval that
\* overlaps another active booking of the room fails with 409 and leaves the
\* booking unchanged.
C9_UpdateConflictRejected ==
    \A id \in BookingIds, p \in UpdatePayloads, same_instant \in BOOLEAN :
        (MovesInterval(id, p)
         /\ Blocking(p["room_id"], p["check_in"], p["check_out"], id) # {})
        => /\ update_result(id, p, same_instant) = "409"
           /\ update_store(id, p, same_instant) = bookings

\* C10: an update that moves a booking, within its room, to an interval that
\* overlaps no other active booking of the room succeeds and stores the new
\* interval, also when the new interval overlaps the booking's own.
C10_UpdateToFreeSlotSucceeds ==
    \A id \in BookingIds, p \in UpdatePayloads, same_instant \in BOOLEAN :
        (MovesInterval(id, p)
         /\ Blocking(p["room_id"], p["check_in"], p["check_out"], id) = {})
        => /\ update_result(id, p, same_instant) = "updated"
           /\ Interval(update_store(id, p, same_instant)[id]) = Interval(p)

\* C10 witness: the last request moved an active booking to an interval that
\* overlaps the one it had, while another active booking of the room exists
\* and does not overlap the new interval.
C10_Witness ==
    /\ last.op = "update_booking" /\ last.result = "updated"
    /\ last.old # <<>> /\ last.old # Interval(bookings[last.id])
    /\ Overlap(last.old[1], last.old[2],
               bookings[last.id]["check_in"], bookings[last.id]["check_out"])
    /\ HoldsActive(bookings[last.id])
    /\ \E b \in (DOMAIN bookings) \ {last.id} :
          /\ bookings[b]["room_id"] = bookings[last.id]["room_id"]
          /\ HoldsActive(bookings[b])
    /\ Blocking(bookings[last.id]["room_id"], bookings[last.id]["check_in"],
                bookings[last.id]["check_out"], last.id) = {}

\* C3: two create requests for the same room and overlapping intervals, each
\* of which ran its availability check before the other inserted, both
\* succeed and leave two overlapping active bookings in the store.
C3_InterleavedCreatesBothSucceed ==
    \A j \in RequestIds : \A k \in RequestIds \ {j} :
        (/\ reqs[j].pc = "done" /\ reqs[k].pc = "done"
         /\ WellFormedCreate(reqs[j].body) /\ WellFormedCreate(reqs[k].body)
         /\ HoldsActive(reqs[j].body) /\ HoldsActive(reqs[k].body)
         /\ reqs[j].body["room_id"] = reqs[k].body["room_id"]
         /\ Overlap(reqs[j].body["check_in"], reqs[j].body["check_out"],
                    reqs[k].body["check_in"], reqs[k].body["check_out"])
         /\ reqs[k].id \notin reqs[j].saw /\ reqs[j].id \notin reqs[k].saw)
        => /\ reqs[j].result = "created" /\ reqs[k].result = "created"
           /\ reqs[j].id # reqs[k].id
           /\ {reqs[j].id, reqs[k].id} \subseteq DOMAIN bookings
           /\ bookings[reqs[j].id] = booking_dict(reqs[j].body)
           /\ bookings[reqs[k].id] = booking_dict(reqs[k].body)
           /\ ~C1_NoDoubleBooking

\* C3 witness: two requests for overlapping stays of one room have both
\* returned, and each had run its check before the other inserted.
C3_Witness ==
    \E j \in RequestIds : \E k \in RequestIds \ {j} :
        /\ reqs[j].pc = "done" /\ reqs[k].pc = "done"
        /\ reqs[j].result = "created" /\ reqs[k].result = "created"
        /\ reqs[k].id \notin reqs[j].saw /\ reqs[j].id \notin reqs[k].saw
        /\ HoldsActive(bookings[reqs[j].id]) /\ HoldsActive(bookings[reqs[k].id])
        /\ bookings[reqs[j].id]["room_id"] = bookings[reqs[k].id]["room_id"]
        /\ Overlap(bookings[reqs[j].id]["check_in"], bookings[reqs[j].id]["check_out"],
                   bookings[reqs[k].id]["check_in"], bookings[reqs[k].id]["check_out"])

\* C8: a create request (with start < end and an existing owner) fails with
\* 404 when its room does not exist and with 400 when its room is in
\* maintenance, and stores nothing in either case.
C8_RoomMissingOrMaintenance ==
    \A p \in CreatePayloads :
        (p["check_in"] < p["check_out"]
         /\ Has(p, "created_by") /\ p["created_by"] \in Users)
        => /\ p["room_id"] \notin DOMAIN rooms
              => /\ create_result(p) = "404_room"
                 /\ \A id \in FreeIds : create_store(p, id) = bookings
           /\ (/\ p["room_id"] \in DOMAIN rooms
               /\ Has(rooms[p["room_id"]], "status")
               /\ rooms[p["room_id"]]["status"] = MAINTENANCE)
              => /\ create_result(p) = "400_maintenance"
                 /\ \A id \in FreeIds : create_store(p, id) = bookings

\* C8 witness: a room that holds a booking went into maintenance, and the
\* last create request for it was refused.
C8_Witness ==
    /\ last.op = "create_booking" /\ last.result = "400_maintenance"
    /\ \E b \in DOMAIN bookings :
          /\ bookings[b]["room_id"] \in DOMAIN rooms
          /\ Has(rooms[bookings[b]["room_id"]], "status")
          /\ rooms[bookings[b]["room_id"]]["status"] = MAINTENANCE

\* An update request that moves booking id to another room that exists and is
\* not in maintenance, for the interval the booking has.
ChangesRoom(id, p) ==
    /\ id \in DOMAIN bookings
    /\ p["room_id"] # bookings[id]["room_id"]
    /\ Bookable(p["room_id"])
    /\ Interval(p) = Interval(bookings[id])

\* C11: an update that changes the room of a booking re-runs the availability
\* check against the new room for the booking's interval: it fails with 409
\* and leaves the booking unchanged if an active booking of the new room
\* overlaps, and otherwise succeeds with the stored booking referencing the
\* new room.
C11_RoomChangeRechecked ==
    \A id \in BookingIds, p \in MoveUpdatePayloads, same_instant \in BOOLEAN :
        ChangesRoom(id, p)
        => IF Blocking(p["room_id"], p["check_in"], p["check_out"], id) # {}
           THEN /\ update_result(id, p, same_instant) = "409"
                /\ update_store(id, p, same_instant) = bookings
           ELSE /\ update_result(id, p, same_instant) = "updated"
                /\ update_store(id, p, same_instant)[id]["room_id"] = p["room_id"]

\* C12: once a booking has been cancelled, a create request for its room and
\* its interval (which no other active booking of the room overlaps) succeeds
\* and is stored.
C12_CancelledDoesNotBlock ==
    \A b \in DOMAIN bookings :
        (Has(bookings[b], "status") /\ bookings[b]["status"] = CANCELLED)
        => \A p \in CreatePayloads :
              (/\ WellFormedCreate(p)
               /\ p["room_id"] = bookings[b]["room_id"]
               /\ Interval(p) = Interval(bookings[b])
               /\ Blocking(p["room_id"], p["check_in"], p["check_out"], NoId) = {})
              => /\ create_result(p) = "created"
                 /\ \A id \in FreeIds :
                       /\ id \in DOMAIN create_store(p, id)
                       /\ create_store(p, id)[id]["room_id"] = p["room_id"]
                       /\ Interval(create_store(p, id)[id]) = Interval(p)

\* C12 witness: the last request created an active booking for the room and
\* the interval of a booking that an update had cancelled.
C12_Witness ==
    /\ last.op = "create_booking" /\ last.result = "created"
    /\ last.id \in DOMAIN bookings
    /\ HoldsActive(bookings[last.id])
    /\ \E b \in (DOMAIN bookings) \ {last.id} :
          /\ Has(bookings[b], "status") /\ bookings[b]["status"] = CANCELLED
          /\ bookings[b]["room_id"] = bookings[last.id]["room_id"]
          /\ Interval(bookings[b]) = Interval(bookings[last.id])

\* The statuses that end a booking: cancelled and the two checked-out ones.
TerminalStatuses == {CANCELLED, CHECKED_OUT, CHECKED_OUT_UNPAID}

HoldsTerminal(doc) == Has(doc, "status") /\ doc["status"] \in TerminalStatuses

\* The stored bookings of a room that overlap [s, e), whatever their status.
Overlapping(room, s, e) ==
    {b \in DOMAIN bookings :
        /\ bookings[b]["room_id"] = room
        /\ Overlap(bookings[b]["check_in"], bookings[b]["check_out"], s, e)}

C14_TerminalStatusKept ==
    \A id \in DOMAIN bookings, p \in StatusUpdatePayloads, same_instant \in BOOLEAN :
        HoldsTerminal(bookings[id])
        => /\ id \in DOMAIN update_store(id, p, same_instant)
           /\ Has(update_store(id, p, same_instant)[id], "status")
           /\ update_store(id, p, same_instant)[id]["status"] = bookings[id]["status"]

\* The lifecycle order: pending, booked, checked-in, then the checked-out
\* statuses.
LifecycleRank(s) ==
    CASE s = PENDING -> 0
      [] s = BOOKED -> 1
      [] s = CHECKED_IN -> 2
      [] s = CHECKED_OUT_UNPAID -> 3
      [] s = CHECKED_OUT -> 4
      [] OTHER -> 5

\* A status change the lifecycle allows: forward in the order from a status
\* that is not terminal, or to cancelled from a status that is not terminal.
LifecycleStep(from, to) ==
    /\ from \notin TerminalStatuses
    /\ \/ to = CANCELLED
       \/ LifecycleRank(from) < LifecycleRank(to)

\* C15: every status change an update applies follows the lifecycle order:
\* the status of a booking never moves backwards.
C15_StatusFollowsLifecycle ==
    \A id \in DOMAIN bookings, p \in StatusUpdatePayloads, same_instant \in BOOLEAN :
        LET after == update_store(id, p, same_instant)
        IN  (/\ Has(bookings[id], "status")
             /\ id \in DOMAIN after /\ Has(after[id], "status")
             /\ after[id]["status"] # bookings[id]["status"])
            => LifecycleStep(bookings[id]["status"], after[id]["status"])

\* The owner reference of a stored booking, and its status as the model
\* reads it.
Owner(doc) == doc["created_by"]

StoredStatus(doc) == process_hotel_booking_doc(doc)["status"]

Forbidden == {"403", "403_fields", "403_status"}

IsCustomer(caller) == caller.role = UserRole["CUSTOMER"]

\* C16: an update by a caller with role customer that changes the status of a
\* booking to a value other than cancelled fails with 403 and leaves the
\* booking unchanged.
C16_CustomerStatusChangeForbidden ==
    \A caller \in Callers, id \in DOMAIN bookings, p \in StatusUpdatePayloads,
       same_instant \in BOOLEAN :
        (/\ IsCustomer(caller)
         /\ model_validate(p)
         /\ Has(p, "status") /\ p["status"] # CANCELLED
         /\ p["status"] # StoredStatus(bookings[id]))
        => /\ update_hotel_booking_result(caller, id, p, same_instant) \in Forbidden
           /\ update_hotel_booking_store(caller, id, p, same_instant) = bookings

\* C19: an update by a caller with role customer who does not own the booking
\* is rejected with 403 and leaves the booking unchanged.
C19_ForeignCustomerUpdateForbidden ==
    \A caller \in Callers, id \in DOMAIN bookings, p \in StatusUpdatePayloads,
       same_instant \in BOOLEAN :
        (/\ IsCustomer(caller)
         /\ Owner(bookings[id]) # caller.user_id
         /\ model_validate(p))
        => /\ update_hotel_booking_result(caller, id, p, same_instant) \in Forbidden
           /\ update_hotel_booking_store(caller, id, p, same_instant) = bookings

\* C20: reading a booking by id, a caller with role customer who does not own
\* it gets 403, and a caller with a staff or admin role gets the booking.
C20_ReadVisibility ==
    \A caller \in Callers, id \in DOMAIN bookings :
        /\ (IsCustomer(caller) /\ Owner(bookings[id]) # caller.user_id)
           => get_hotel_booking_by_id_result(caller, id) = "403"
        /\ ~IsCustomer(caller)
           => get_hotel_booking_by_id_result(caller, id) = "200"

\* C17: a caller with role customer who owns a booking in a status that is
\* not terminal can cancel it: some update request of theirs is accepted and
\* leaves the stored booking with status cancelled.
C17_OwnerCanCancel ==
    \A caller \in Callers, id \in DOMAIN bookings :
        (/\ IsCustomer(caller)
         /\ Owner(bookings[id]) = caller.user_id
         /\ StoredStatus(bookings[id]) \notin TerminalStatuses)
        => \E p \in StatusUpdatePayloads, same_instant \in BOOLEAN :
              /\ update_hotel_booking_result(caller, id, p, same_instant) = "updated"
              /\ StoredStatus(update_hotel_booking_store(caller, id, p,
                                                         same_instant)[id]) = CANCELLED

\* C18: an update whose body carries an owner other than the stored one fails
\* with 400 and leaves the stored owner as it was.
C18_OwnerImmutable ==
    \A id \in DOMAIN bookings, p \in OwnerUpdatePayloads, same_instant \in BOOLEAN :
        (/\ model_validate(p)
         /\ Has(p, "created_by") /\ p["created_by"] # Owner(bookings[id]))
        => /\ update_result(id, p, same_instant) = "400_user_id"
           /\ Owner(update_store(id, p, same_instant)[id]) = Owner(bookings[id])

\* C21: an update of a booking id that is not stored fails with NotFound
\* (update_booking returns None, the endpoint answers 404) and leaves the
\* store as it was.
C21_UpdateUnknownIdNotFound ==
    \A id \in BookingIds \ DOMAIN bookings, p \in StatusUpdatePayloads,
       same_instant \in BOOLEAN :
        model_validate(p)
        => /\ update_result(id, p, same_instant) = "None"
           /\ update_store(id, p, same_instant) = bookings
           /\ \A caller \in Callers :
                /\ update_hotel_booking_result(caller, id, p, same_instant) = "404"
                /\ update_hotel_booking_store(caller, id, p, same_instant) = bookings

C21_Witness ==
    /\ last.op = "update_hotel_booking"
    /\ last.result = "404"
    /\ last.id \notin DOMAIN bookings
    /\ bookings # EmptyColl

\* C22: an update whose body changes no field of the stored booking signals
\* NotModified (304) and leaves the stored booking unchanged.
C22_NoChangeNotModified ==
    \A id \in DOMAIN bookings, p \in UpdatePayloads, same_instant \in BOOLEAN :
        (model_validate(p) /\ no_field_changes(id, p))
        => /\ update_result(id, p, same_instant) = "304"
           /\ update_store(id, p, same_instant) = bookings

\* C23: delete_booking removes exactly the booking with the given id and
\* returns true if it was stored, false otherwise; every other booking and
\* every room is unchanged; deleting the id again right away returns false.
C23_DeleteRemovesExactlyOne ==
    [][last'.op = "delete_booking"
       => LET id == last'.id
          IN  /\ DOMAIN bookings' = (DOMAIN bookings) \ {id}
              /\ \A b \in DOMAIN bookings' : bookings'[b] = bookings[b]
              /\ rooms' = rooms
              /\ last'.result = (IF id \in DOMAIN bookings THEN "True" ELSE "False")
              /\ (last.op = "delete_booking" /\ last.id = id)
                 => last'.result = "False"]_vars

C23_Witness ==
    /\ last.op = "delete_booking"
    /\ last.result = "True"
    /\ last.id \notin DOMAIN bookings
    /\ bookings # EmptyColl

\* C24: a create request that omits the status stores the booking with an
\* initial active status (pending or booked), and a booking stored that way
\* makes a later create for an overlapping interval of its room fail with 409.
C24_OmittedStatusStoredActive ==
    /\ \A p \in StatusCreatePayloads, id \in FreeIds :
        (~Has(p, "status") /\ create_result(p) = "created")
        => LET stored == create_store(p, id)[id]
           IN  Has(stored, "status") /\ stored["status"] \in InitialStatuses
    /\ \A b \in DOMAIN bookings, q \in StatusCreatePayloads :
        (/\ ~Has(bookings[b], "status")
         /\ WellFormedCreate(q)
         /\ q["room_id"] = bookings[b]["room_id"]
         /\ Overlap(q["check_in"], q["check_out"],
                    bookings[b]["check_in"], bookings[b]["check_out"]))
        => create_result(q) = "409"

\* The results of a create or update request that are an error response.
ErrorResults ==
    {"400_interval", "400_maintenance", "400_user_id", "403", "403_fields",
     "403_status", "404", "404_user", "404_room", "None", "409", "304"}

\* C25: a create or update request that ends in an error (400, 403, 404, 409
\* or NotModified) leaves the booking store exactly as it was.
C25_ErrorLeavesStore ==
    [][(/\ last'.op \in {"create_booking", "update_booking"}
        /\ last'.result \in ErrorResults)
       => bookings' = bookings]_vars

C25_Witness ==
    /\ last.op = "create_booking"
    /\ last.result = "404_user"
    /\ bookings # EmptyColl

\* C26: the availability check only reads: a call of _check_room_availability,
\* whatever it returns or raises, changes no booking and no room.
C26_AvailabilityCheckReadsOnly ==
    [][last'.op = "_check_room_availability"
       => (bookings' = bookings /\ rooms' = rooms)]_vars

C26_Witness ==
    /\ last.op = "_check_room_availability"
    /\ last.result = "available"
    /\ bookings # EmptyColl

\* C27: create_room, update_room and delete_room leave every stored booking
\* unchanged.
C27_RoomOperationsKeepBookings ==
    [][last'.op \in {"create_room", "update_room", "delete_room"}
       => bookings' = bookings]_vars

C27_Witness ==
    /\ last.op = "delete_room"
    /\ last.result = "True"
    /\ \E b \in DOMAIN bookings : bookings[b]["room_id"] = last.id

\* C28: an update that takes a booking from cancelled or checked-out back to
\* an active status, while another active booking of the same room overlaps
\* its interval, is rejected with 409 and leaves the store as it was.
C28_ReactivationRechecked ==
    \A id \in DOMAIN bookings, p \in StatusUpdatePayloads, same_instant \in BOOLEAN :
        (/\ model_validate(p)
         /\ StoredStatus(bookings[id]) \in {CANCELLED, CHECKED_OUT}
         /\ Has(p, "status") /\ p["status"] \in ActiveStatuses
         /\ Blocking(p["room_id"], p["check_in"], p["check_out"], id) # {})
        => /\ update_result(id, p, same_instant) = "409"
           /\ update_store(id, p, same_instant) = bookings

\* C29: in every reachable state each stored booking refers to a room that is
\* stored: no sequence of room and booking operations leaves a booking
\* pointing at a deleted room.
C29_BookingsReferenceRooms ==
    \A b \in DOMAIN bookings : bookings[b]["room_id"] \in DOMAIN rooms

\* C30: update_booking signals NotModified only for a booking that is still
\* stored: when a delete removed the booking between the update's lookup and
\* its write, the update reports NotFound, not NotModified.
C30_NotModifiedOnlyIfStored ==
    \A k \in RequestIds :
        (reqs[k].pc = "done" /\ reqs[k].result = "304") => reqs[k].matched

====
